---- MODULE Spec2Model ----
(***************************************************************************)
(* Ingestion-and-linking engine of the chat knowledge graph (src/main.go,  *)
(* the second program of the file, lines 423-988).                         *)
(*                                                                         *)
(* The graph database is modelled as a property graph:                     *)
(*   store  the committed graph (nodes and relationships with an internal  *)
(*          element id `nid`/`eid` and their properties);                  *)
(*   tx[s]  the write set of the transaction session s has open.           *)
(* A statement run in a transaction reads the committed graph plus the     *)
(* transaction's own writes (read-committed isolation), a commit adds the  *)
(* write set to the committed graph atomically, a rollback drops it.       *)
(* Every tx.Run may fail; a failed statement writes nothing, and the       *)
(* statements the code runs after it are executed as the code expects.     *)
(* A statement that creates a relationship at a committed node, or sets a  *)
(* property of it, takes the write lock of the node and waits while        *)
(* another transaction holds it; locks are held until the transaction      *)
(* ends.  Creating a node, and MERGE of a node pattern without a           *)
(* uniqueness constraint, wait for nothing.                                *)
(***************************************************************************)
EXTENDS Integers, Sequences, FiniteSets, TLC

\* ------------------------------------------------------------------ bounds
MaxMsgs == 2
MaxTime == 1
\* comma-separated pieces of an answer of the tagging prompt
MaxPieces == 3
\* length of the vectors cosineSimilarity is applied to on its own
MaxDim == 2

Sessions == {"s1", "s2"}

\* The session whose conversation loop runs when only one does.
MainSession == "s1"

\* ------------------------------------------------------------- strings
\* A Go string is a sequence of characters.  A character is written as a
\* string: an ASCII character as itself, an accented one as its base letter
\* followed by its marks ("A/" is A-acute, "a!" a-grave, "o^" o-circumflex,
\* "a^!" a-circumflex-grave, "e^/" e-circumflex-acute, "u~" u-tilde,
\* "a?" a-hook-above).
Str_khongCoTag == <<"k","h","o^","n","g"," ","c","o/"," ","t","a","g">>
Str_noTag == <<"n","o"," ","t","a","g">>
Comma == ","

Tag_Ao == <<"A/","o">>
Tag_Quan == <<"Q","u","a^!","n">>
Tag_Giay == <<"G","i","a!","y">>
Tag_Tui == <<"T","u/","i">>
Tag_Mu == <<"M","u~">>
Tag_KhuyenMai == <<"K","h","u","y","e^/","n"," ","m","a~","i">>
Tag_GiamGia == <<"G","i","a?","m"," ","g","i","a/">>
Tag_Freeship == <<"F","r","e","e","s","h","i","p">>
Tag_Combo == <<"C","o","m","b","o">>

validTags == <<Tag_Ao, Tag_Quan, Tag_Giay, Tag_Tui, Tag_Mu, Tag_KhuyenMai,
               Tag_GiamGia, Tag_Freeship, Tag_Combo>>

\* unicode.ToLower on the characters that occur in the texts of the model
LowerOf(c) ==
    CASE c = "A/" -> "a/"
      [] c = "Q" -> "q"
      [] c = "G" -> "g"
      [] c = "T" -> "t"
      [] c = "M" -> "m"
      [] c = "K" -> "k"
      [] c = "F" -> "f"
      [] c = "C" -> "c"
      [] c = "N" -> "n"
      [] c = "O" -> "o"
      [] c = "A" -> "a"
      [] OTHER -> c

ToLower(str) == [i \in DOMAIN str |-> LowerOf(str[i])]

IsSpace(c) == c \in {" ", "\t", "\n", "\r"}

RECURSIVE TrimLeft(_, _)
TrimLeft(str, cutset) ==
    IF str # <<>> /\ Head(str) \in cutset THEN TrimLeft(Tail(str), cutset) ELSE str

RECURSIVE TrimRight(_, _)
TrimRight(str, cutset) ==
    IF str # <<>> /\ str[Len(str)] \in cutset
    THEN TrimRight(SubSeq(str, 1, Len(str) - 1), cutset)
    ELSE str

\* strings.Trim(s, cutset)
Trim(str, cutset) == TrimRight(TrimLeft(str, cutset), cutset)

\* strings.TrimSpace(s)
TrimSpace(str) == Trim(str, {" ", "\t", "\n", "\r"})

\* strings.Contains(s, substr)
Contains(str, sub) ==
    \E i \in 1..(Len(str) - Len(sub) + 1) : SubSeq(str, i, i + Len(sub) - 1) = sub

\* strings.Split(s, sep) for a one-character separator: n separators give
\* n+1 pieces, the empty string gives one empty piece.
RECURSIVE Split(_, _)
Split(str, sep) ==
    IF \A i \in DOMAIN str : str[i] # sep
    THEN <<str>>
    ELSE LET k == CHOOSE i \in DOMAIN str :
                     str[i] = sep /\ \A j \in 1..(i - 1) : str[j] # sep
         IN <<SubSeq(str, 1, k - 1)>> \o Split(SubSeq(str, k + 1, Len(str)), sep)

\* strings.EqualFold(s, t)
EqualFold(a, b) == ToLower(a) = ToLower(b)

\* -------------------------------------------------- extractTopics, 569-601
\* MatchValidTag, were the candidate appended as the service spelled it.
RECURSIVE MatchValidTag_KeepsCandidate(_, _)
MatchValidTag_KeepsCandidate(topic, i) ==
    IF i > Len(validTags) THEN <<>>
    ELSE IF EqualFold(topic, validTags[i]) THEN <<topic>>
    ELSE MatchValidTag_KeepsCandidate(topic, i + 1)

\* The first valid tag that matches the candidate case-insensitively, as a
\* list of zero or one tag (the inner loop of lines 592-597, with its break).
RECURSIVE MatchValidTag(_, _)
MatchValidTag(topic, i) ==
    IF i > Len(validTags) THEN <<>>
    ELSE IF EqualFold(topic, validTags[i]) THEN <<validTags[i]>>
    ELSE MatchValidTag(topic, i + 1)

\* The loop of lines 588-599 over the comma-separated pieces.
RECURSIVE CleanPieces(_)
CleanPieces(pieces) ==
    IF pieces = <<>> THEN <<>>
    ELSE LET topic == TrimSpace(Head(pieces))
         IN (IF topic # <<>> /\ topic # Str_khongCoTag
             THEN MatchValidTag(topic, 1)
             ELSE <<>>) \o CleanPieces(Tail(pieces))

\* What extractTopics returns for the text the completion service answered.
cleanedTopics(content) ==
    LET topicsText == Trim(TrimSpace(content), {"\"", "'"})
    IN IF \/ Contains(ToLower(topicsText), Str_khongCoTag)
          \/ Contains(ToLower(topicsText), Str_noTag)
          \/ TrimSpace(topicsText) = <<>>
       THEN <<>>
       ELSE CleanPieces(Split(topicsText, Comma))

\* ----------------------------------------------- cosineSimilarity, 884-902
\* A float64 similarity is kept exactly, as the pair (dot, norm2) that stands
\* for dot / sqrt(norm2) with norm2 = normA * normB; 0.0 is (0, 1).  The
\* embeddings of the model have integer entries whose norms are exact in
\* float64, so that the comparisons below decide as the float64 ones do.
RECURSIVE SumProducts(_, _, _)
SumProducts(a, b, i) ==
    IF i > Len(a) THEN 0 ELSE a[i] * b[i] + SumProducts(a, b, i + 1)

Zero == [dot |-> 0, norm2 |-> 1]

\* cosineSimilarity, without the test of the norms (897-899): 0/0 is NaN,
\* kept as (0, 0).
cosineSimilarity_NoNormCheck(a, b) ==
    IF Len(a) # Len(b) \/ Len(a) = 0 THEN Zero
    ELSE LET dotProduct == SumProducts(a, b, 1)
             normA == SumProducts(a, a, 1)
             normB == SumProducts(b, b, 1)
         IN IF normA = 0 \/ normB = 0 THEN [dot |-> 0, norm2 |-> 0]
            ELSE IF dotProduct = 0 THEN Zero
            ELSE [dot |-> dotProduct, norm2 |-> normA * normB]

\* cosineSimilarity, were vectors of different or no length taken as equal.
cosineSimilarity_DegenerateOne(a, b) ==
    IF Len(a) # Len(b) \/ Len(a) = 0 THEN [dot |-> 1, norm2 |-> 1]
    ELSE LET dotProduct == SumProducts(a, b, 1)
             normA == SumProducts(a, a, 1)
             normB == SumProducts(b, b, 1)
         IN IF normA = 0 \/ normB = 0 THEN Zero
            ELSE IF dotProduct = 0 THEN Zero
            ELSE [dot |-> dotProduct, norm2 |-> normA * normB]

cosineSimilarity(a, b) ==
    IF Len(a) # Len(b) \/ Len(a) = 0 THEN Zero
    ELSE LET dotProduct == SumProducts(a, b, 1)
             normA == SumProducts(a, a, 1)
             normB == SumProducts(b, b, 1)
         IN IF normA = 0 \/ normB = 0 THEN Zero
            ELSE IF dotProduct = 0 THEN Zero
            ELSE [dot |-> dotProduct, norm2 |-> normA * normB]

\* The threshold of line 784, 0.5 = ThresholdNum / ThresholdDen.
ThresholdNum == 1
ThresholdDen == 2

\* AboveThreshold, were the comparison >= 0.5.
AboveThreshold_OrEqual(similarity) ==
    /\ similarity.dot > 0
    /\ ThresholdDen * ThresholdDen * similarity.dot * similarity.dot
         >= ThresholdNum * ThresholdNum * similarity.norm2

\* similarity > 0.5 (line 784): dot / sqrt(norm2) > num / den
AboveThreshold(similarity) ==
    /\ similarity.dot > 0
    /\ ThresholdDen * ThresholdDen * similarity.dot * similarity.dot
         > ThresholdNum * ThresholdNum * similarity.norm2

\* x = y on two similarities (the same float64 value)
SameSimilarity(x, y) ==
    /\ (x.dot > 0) = (y.dot > 0)
    /\ (x.dot < 0) = (y.dot < 0)
    /\ x.dot * x.dot * y.norm2 = y.dot * y.dot * x.norm2

\* ------------------------------------------------------------------ inputs
Senders == {"human", "ai"}

\* The contents a turn may carry and what the embedding service answers for
\* each of them: cos(c1, c2) is exactly 0.5, cos(c, c) is 1.
Contents == {"c1", "c2"}
EmbeddingOf(content) ==
    CASE content = "c1" -> <<1, 0, 0, 0>>
      [] content = "c2" -> <<1, 1, 1, 1>>

\* The texts the completion service may answer to the tagging prompt:
\* "no tag", "a/o, Gia!y" and "A/o, a/o".
Raw_noTag == <<"n","o"," ","t","a","g">>
Raw_aoGiay == <<"a/","o",","," ","G","i","a!","y">>
Raw_AoAo == <<"A/","o",","," ","a/","o">>
RawTexts == {Raw_noTag, Raw_aoGiay, Raw_AoAo}

\* An id no generateID call has returned: the owner without a User node.
NoId == <<"", 0>>

\* ------------------------------------------------------------------- state
VARIABLES
    store,      \* the committed graph
    tx,         \* tx[s]: the write set of the transaction of session s
    pc,         \* pc[s]: where session s is in main and printMessageNode
    message,    \* message[s]: the Message struct of printMessageNode
    userID,     \* userID[s]: the userID argument
    topicIdx,   \* topicIdx[s]: index of the range loop over message.Topics
    result,     \* result[s]: rows of the similarity query not yet read
    log,        \* log[s]: the calls of this ingestion and how they ended
    ret,        \* ret[s]: what addMessageAndCreateEdges returned
    now,        \* time.Now().Unix() when a session last read the clock
    idCalls,    \* idCalls[s]: generateID calls of session s
    turn,       \* turn[s]: printMessageNode calls of session s
    elem,       \* elem[s]: elements written by the current ingestion of s
    concurrent, \* whether the sessions ingest at the same time
    reliable,   \* whether the collaborators answer, and every turn alike
    randFails   \* whether rand.Read may fail in generateID

vars == <<store, tx, pc, message, userID, topicIdx, result, log, ret, now,
          idCalls, turn, elem, concurrent, reliable, randFails>>

EmptyGraph ==
    [users |-> {}, messages |-> {}, topics |-> {}, owns |-> {},
     belongsTo |-> {}, links |-> {}]

\* A write set: the elements created, and the lastActive values set.
EmptyTx ==
    [messages |-> {}, topics |-> {}, owns |-> {}, belongsTo |-> {},
     links |-> {}, active |-> {}]

NoMessage ==
    [MessageID |-> NoId, Timestamp |-> 0, Sender |-> "", Content |-> "",
     Embedding |-> <<>>, Topics |-> <<>>]

\* The User node createUser writes (823-882) for the main of session s:
\* generateID is its first call of the session, createdAt and lastActive are
\* the time of the call.  (Language, tone and addressing style are the same
\* constants on every User node and are left out.)
createUser(s, t) ==
    [nid |-> <<s, 0, 1>>, userId |-> <<s, 1>>, name |-> "Shiny",
     createdAt |-> t, lastActive |-> t]

\* Every main has created the user of its conversation (920-926) and is at
\* the prompt of its loop (pc "idle", 940).
InitGraph ==
    /\ store = [EmptyGraph EXCEPT !.users = {createUser(s, 0) : s \in Sessions}]
    /\ tx = [s \in Sessions |-> EmptyTx]
    /\ pc = [s \in Sessions |-> "idle"]
    /\ message = [s \in Sessions |-> NoMessage]
    /\ userID = [s \in Sessions |-> NoId]
    /\ topicIdx = [s \in Sessions |-> 0]
    /\ result = [s \in Sessions |-> {}]
    /\ log = [s \in Sessions |-> <<>>]
    /\ ret = [s \in Sessions |-> "none"]
    /\ now = 0
    /\ idCalls = [s \in Sessions |-> 1]
    /\ turn = [s \in Sessions |-> 0]
    /\ elem = [s \in Sessions |-> 0]

\* One conversation loop at a time calls the pipeline.
Init ==
    InitGraph /\ concurrent = FALSE /\ reliable = FALSE /\ randFails = FALSE

\* Independent sessions call the pipeline at the same time.
InitConcurrent ==
    InitGraph /\ concurrent = TRUE /\ reliable = TRUE /\ randFails = FALSE

\* One conversation loop whose random source may fail, every turn with the
\* same text, the same owner and collaborators that answer.
InitRand ==
    InitGraph /\ concurrent = FALSE /\ reliable = TRUE /\ randFails = TRUE

\* One conversation loop, every turn with the same text, the same owner and
\* collaborators that answer.
InitReliable ==
    InitGraph /\ concurrent = FALSE /\ reliable = TRUE /\ randFails = FALSE

\* ----------------------------------------------------------------- helpers
RECURSIVE SumOver(_, _)
SumOver(f, S) ==
    IF S = {} THEN 0
    ELSE LET x == CHOOSE y \in S : TRUE IN f[x] + SumOver(f, S \ {x})

\* generateID (497-502): 16 random bytes in hex, a value no other call
\* returns; the n-th call of session s is modelled as <<s, n>>.
generateID(s) == <<s, idCalls[s] + 1>>

\* The hex of a buffer rand.Read has not filled: 32 zeros.
ZeroID == <<"0", 0>>

\* What a call of generateID may return.  The error of rand.Read is dropped
\* (500): when the read fails, the hex of the buffer as make left it (499).
GeneratedIDs(s) ==
    IF randFails THEN {generateID(s), ZeroID} ELSE {generateID(s)}

\* rand.Read of Go 1.24 and later does not return when the read fails: it
\* ends the program, and the server rolls back the transaction it had open.
GenerateIDFatal(s) ==
    /\ randFails
    /\ tx' = [tx EXCEPT ![s] = EmptyTx]
    /\ result' = [result EXCEPT ![s] = {}]
    /\ pc' = [pc EXCEPT ![s] = "exited"]
    /\ UNCHANGED <<store, message, userID, topicIdx, log, ret, now, idCalls,
                   turn, elem, concurrent, reliable, randFails>>

\* The internal id of the next element session s writes.
NewElement(s) == <<s, turn[s], elem[s] + 1>>

\* View, were the Message nodes other transactions have written, and not
\* yet committed, read as well.
View_UncommittedMessages(s) ==
    [users |-> {IF \E a \in tx[s].active : a.user = u.nid
                THEN [u EXCEPT !.lastActive =
                        (CHOOSE a \in tx[s].active : a.user = u.nid).lastActive]
                ELSE u : u \in store.users},
     messages |-> store.messages \cup UNION {tx[o].messages : o \in Sessions},
     topics |-> store.topics \cup tx[s].topics,
     owns |-> store.owns \cup tx[s].owns,
     belongsTo |-> store.belongsTo \cup tx[s].belongsTo,
     links |-> store.links \cup tx[s].links]

\* What a statement of the transaction of s reads: the committed graph and
\* the writes of the transaction itself.
View(s) ==
    [users |-> {IF \E a \in tx[s].active : a.user = u.nid
                THEN [u EXCEPT !.lastActive =
                        (CHOOSE a \in tx[s].active : a.user = u.nid).lastActive]
                ELSE u : u \in store.users},
     messages |-> store.messages \cup tx[s].messages,
     topics |-> store.topics \cup tx[s].topics,
     owns |-> store.owns \cup tx[s].owns,
     belongsTo |-> store.belongsTo \cup tx[s].belongsTo,
     links |-> store.links \cup tx[s].links]

\* The graph after the transaction of s commits.
Committed(s) == View(s)

\* The committed nodes whose write lock the transaction of s holds.
LockedNodes(s) ==
    ({o.user : o \in tx[s].owns} \cup {a.user : a \in tx[s].active}
       \cup {b.msg : b \in tx[s].belongsTo} \cup {b.topic : b \in tx[s].belongsTo}
       \cup {r.from : r \in tx[s].links} \cup {r.to : r \in tx[s].links})
    \cap {n.nid : n \in store.users \cup store.messages \cup store.topics}

\* A statement of session s that locks the nodes has to wait.
Blocked(s, nodes) ==
    \E o \in Sessions \ {s} : nodes \cap LockedNodes(o) # {}

Entry(op, arg, ok) == [op |-> op, arg |-> arg, ok |-> ok]

\* Session s is between the call of printMessageNode and the return of
\* addMessageAndCreateEdges.
InFlight(s) ==
    pc[s] \in {"createMessage", "linkOwnership", "updateLastActive",
               "upsertTopic", "linkTopic", "fetchCandidates", "scan", "commit"}

\* -------------------------------------------------------- printMessageNode
\* The userID printMessageNode may be called with by session s: the id of
\* the user main created (952, 976), or an id that has no User node.
\* Concurrent sessions ingest for one owner: the user of the main session, or
\* the id without a User node.
OwnerArgs(s) ==
    IF concurrent THEN {createUser(MainSession, 0).userId, NoId}
    ELSE IF reliable THEN {createUser(s, 0).userId}
    ELSE {createUser(s, 0).userId, NoId}

\* The sender main passes: "human" for the line read at the prompt (952),
\* "ai" for the reply of the completion service (976).
SenderAt(s) == IF pc[s] = "idle" THEN "human" ELSE "ai"

\* The texts of the turns.
ContentsAt == IF reliable /\ ~ concurrent THEN {"c1"} ELSE Contents

\* How the two collaborator calls of printMessageNode may end: getEmbedding
\* answers or fails, extractTopics fails or cleans the text the completion
\* service answered.  Reliable collaborators answer, and answer the tagging
\* prompt with one text.
EmbeddingOutcomes == IF reliable THEN {TRUE} ELSE BOOLEAN

TopicOutcomes ==
    IF reliable
    THEN {[ok |-> TRUE, topics |-> cleanedTopics(Raw_AoAo)]}
    ELSE {[ok |-> FALSE, topics |-> <<>>]} \cup
         {[ok |-> TRUE, topics |-> cleanedTopics(raw)] : raw \in RawTexts}

\* main calls printMessageNode with the line read at the prompt (940-952) or
\* with the reply of the completion service (959-976).
\* printMessageNode up to the call of addMessageAndCreateEdges (605-627):
\* the embedding is fetched (a failing service leaves the empty embedding),
\* the topics are extracted (a failing service leaves none) and the Message
\* struct is built with a generated id and the time.  The calls touch nothing
\* the sessions share and are one step; log[s] keeps their order.  The clock
\* is read with a resolution of one second: zero or more seconds have passed
\* since it was last read, and the calls of time.Now() within the ingestion
\* (695, 721, 796) read the second in which the message was built.
PrintMessageNode(s) ==
    /\ pc[s] \in {"idle", "completion"}
    /\ SumOver(turn, Sessions) < MaxMsgs
    /\ concurrent \/ s = MainSession
    /\ \/ /\ \E sender \in Senders \cap {SenderAt(s)}, content \in ContentsAt,
                owner \in OwnerArgs(s),
                embedded \in EmbeddingOutcomes, topics \in TopicOutcomes,
                id \in GeneratedIDs(s), t \in now..MaxTime :
               /\ now' = t
               /\ message' = [message EXCEPT ![s] =
                                [MessageID |-> id, Timestamp |-> t,
                                 Sender |-> sender, Content |-> content,
                                 Embedding |-> IF embedded
                                               THEN EmbeddingOf(content)
                                               ELSE <<>>,
                                 Topics |-> topics.topics]]
               /\ userID' = [userID EXCEPT ![s] = owner]
               /\ log' = [log EXCEPT ![s] =
                            <<Entry("getEmbedding", content, embedded),
                              Entry("extractTopics", topics.topics, topics.ok),
                              Entry("generateID", generateID(s), id # ZeroID)>>]
          /\ idCalls' = [idCalls EXCEPT ![s] = @ + 1]
          /\ pc' = [pc EXCEPT ![s] = "createMessage"]
          /\ ret' = [ret EXCEPT ![s] = "none"]
          /\ turn' = [turn EXCEPT ![s] = @ + 1]
          /\ elem' = [elem EXCEPT ![s] = 0]
          /\ topicIdx' = [topicIdx EXCEPT ![s] = 0]
          /\ UNCHANGED <<store, tx, result, concurrent, reliable, randFails>>
       \/ GenerateIDFatal(s)

\* ------------------------------------------------ addMessageAndCreateEdges
\* Abort, were the error swallowed and the transaction committed.
Abort_Commits(s, op, arg) ==
    /\ store' = Committed(s)
    /\ tx' = [tx EXCEPT ![s] = EmptyTx]
    /\ result' = [result EXCEPT ![s] = {}]
    /\ ret' = [ret EXCEPT ![s] = "error"]
    /\ pc' = [pc EXCEPT ![s] = "done"]
    /\ log' = [log EXCEPT ![s] = Append(@, Entry(op, arg, FALSE))]
    /\ UNCHANGED <<message, userID, topicIdx, now, idCalls, turn, elem,
                   concurrent, reliable, randFails>>

\* The transaction function returns an error (666, 683, 700, 762): the
\* transaction is rolled back and addMessageAndCreateEdges returns the error
\* (815-817), which printMessageNode logs (630-632).
Abort(s, op, arg) ==
    /\ tx' = [tx EXCEPT ![s] = EmptyTx]
    /\ result' = [result EXCEPT ![s] = {}]
    /\ ret' = [ret EXCEPT ![s] = "error"]
    /\ pc' = [pc EXCEPT ![s] = "done"]
    /\ log' = [log EXCEPT ![s] = Append(@, Entry(op, arg, FALSE))]
    /\ UNCHANGED <<store, message, userID, topicIdx, now, idCalls,
                   turn, elem, concurrent, reliable, randFails>>

\* UsersById, were the User nodes matched without their userId.
UsersById_Any(s, id) == View(s).users

\* The nodes the patterns of the queries match in what the transaction reads.
MessagesById(s, id) == {m \in View(s).messages : m.messageId = id}
UsersById(s, id) == {u \in View(s).users : u.userId = id}
TopicsByName(s, name) == {t \in View(s).topics : t.name = name}

\* TopicLoop, were the similarity scan skipped for a message without topics.
TopicLoop_SkipsScan(s, i) ==
    IF message[s].Topics = <<>> THEN "commit"
    ELSE IF i > Len(message[s].Topics) THEN "fetchCandidates" ELSE "upsertTopic"

\* Where the range loop over message.Topics (711) goes with index i.
TopicLoop(s, i) ==
    IF i > Len(message[s].Topics) THEN "fetchCandidates" ELSE "upsertTopic"

\* CREATE (m:Message {...}) (642-667)
CreateMessageNode(s) ==
    /\ pc[s] = "createMessage"
    /\ \/ /\ tx' = [tx EXCEPT ![s].messages = @ \cup
                      {[nid |-> NewElement(s),
                        messageId |-> message[s].MessageID,
                        userId |-> userID[s],
                        timestamp |-> message[s].Timestamp,
                        sender |-> message[s].Sender,
                        content |-> message[s].Content,
                        embedding |-> message[s].Embedding,
                        topics |-> message[s].Topics]}]
          /\ elem' = [elem EXCEPT ![s] = @ + 1]
          /\ pc' = [pc EXCEPT ![s] = "linkOwnership"]
          /\ log' = [log EXCEPT ![s] =
                       Append(@, Entry("createMessage", NewElement(s), TRUE))]
          /\ UNCHANGED <<store, message, userID, topicIdx, result,
                         ret, now, idCalls, turn, concurrent, reliable, randFails>>
       \/ Abort(s, "createMessage", NoId)

\* IsHuman, were the update run for every sender.
IsHuman_Always(m) == TRUE

\* if message.Sender == "human" (687)
IsHuman(m) == m.Sender = "human"

\* MATCH (u:User {userId}) MATCH (m:Message {messageId}) CREATE (u)-[:OWNS]->(m)
\* (669-684): one relationship for every pair the two MATCHes give.
LinkOwnership(s) ==
    /\ pc[s] = "linkOwnership"
    /\ \/ /\ ~ Blocked(s, {u.nid : u \in UsersById(s, userID[s])})
          /\ tx' = [tx EXCEPT ![s].owns = @ \cup
                      {[eid |-> NewElement(s), user |-> u.nid, msg |-> m.nid] :
                         u \in UsersById(s, userID[s]),
                         m \in MessagesById(s, message[s].MessageID)}]
          /\ elem' = [elem EXCEPT ![s] = @ + 1]
          /\ pc' = [pc EXCEPT ![s] =
                      IF IsHuman(message[s]) THEN "updateLastActive"
                      ELSE TopicLoop(s, 1)]
          /\ topicIdx' = [topicIdx EXCEPT ![s] = 1]
          /\ log' = [log EXCEPT ![s] =
                       Append(@, Entry("linkOwnership", userID[s], TRUE))]
          /\ UNCHANGED <<store, message, userID, result, ret, now,
                         idCalls, turn, concurrent, reliable, randFails>>
       \/ Abort(s, "linkOwnership", userID[s])

\* MATCH (u:User {userId}) SET u.lastActive = $lastActive (686-702)
UpdateLastActive(s) ==
    /\ pc[s] = "updateLastActive"
    /\ \/ /\ ~ Blocked(s, {u.nid : u \in UsersById(s, userID[s])})
          /\ tx' = [tx EXCEPT ![s].active =
                      {[user |-> u.nid, lastActive |-> now] :
                         u \in UsersById(s, userID[s])}]
          /\ pc' = [pc EXCEPT ![s] = TopicLoop(s, 1)]
          /\ log' = [log EXCEPT ![s] =
                       Append(@, Entry("updateLastActive", now, TRUE))]
          /\ UNCHANGED <<store, message, userID, topicIdx, result,
                         ret, now, idCalls, turn, elem, concurrent, reliable, randFails>>
       \/ Abort(s, "updateLastActive", now)

\* TopicMissing, were the node created without looking for one (CREATE).
TopicMissing_Always(s, topicName) == TRUE

\* MERGE (t:Topic {name}) (713-717): the pattern creates a node when the
\* transaction reads no Topic node of that name.
TopicMissing(s, topicName) == TopicsByName(s, topicName) = {}

\* UpsertTopicFails, were the error returned instead of skipped.
UpsertTopicFails_Returns(s) ==
    /\ tx' = [tx EXCEPT ![s] = EmptyTx]
    /\ result' = [result EXCEPT ![s] = {}]
    /\ ret' = [ret EXCEPT ![s] = "error"]
    /\ pc' = [pc EXCEPT ![s] = "done"]
    /\ log' = [log EXCEPT ![s] =
                 Append(@, Entry("upsertTopic", topicIdx[s], FALSE))]
    /\ idCalls' = [idCalls EXCEPT ![s] = @ + 1]
    /\ UNCHANGED <<store, message, userID, topicIdx, now, turn, elem,
                   concurrent, reliable, randFails>>

\* The topic query fails: the error is logged and the loop continues with
\* the next topic (725-728).
UpsertTopicFails(s) ==
    LET i == topicIdx[s]
    IN /\ pc' = [pc EXCEPT ![s] = TopicLoop(s, i + 1)]
       /\ topicIdx' = [topicIdx EXCEPT ![s] = i + 1]
       /\ log' = [log EXCEPT ![s] = Append(@, Entry("upsertTopic", i, FALSE))]
       /\ idCalls' = [idCalls EXCEPT ![s] = @ + 1]
       /\ UNCHANGED <<store, tx, message, userID, result, ret, now, turn,
                      elem, concurrent, reliable, randFails>>

\* MERGE (t:Topic {name}) ON CREATE SET t.topicId, t.createdAt (711-728).
\* The id is generated for every call (720), and set on a created node only.
UpsertTopic(s) ==
    LET i == topicIdx[s]
        topicName == message[s].Topics[i]
    IN /\ pc[s] = "upsertTopic"
       /\ \/ /\ IF TopicMissing(s, topicName)
                THEN /\ \E id \in GeneratedIDs(s) :
                          tx' = [tx EXCEPT ![s].topics = @ \cup
                                   {[nid |-> NewElement(s), name |-> topicName,
                                     topicId |-> id, createdAt |-> now]}]
                     /\ elem' = [elem EXCEPT ![s] = @ + 1]
                ELSE UNCHANGED <<tx, elem>>
             /\ pc' = [pc EXCEPT ![s] = "linkTopic"]
             /\ log' = [log EXCEPT ![s] =
                          Append(@, Entry("upsertTopic", i, TRUE))]
             /\ idCalls' = [idCalls EXCEPT ![s] = @ + 1]
             /\ UNCHANGED <<store, message, userID, topicIdx, result, ret,
                            now, turn, concurrent, reliable, randFails>>
          \/ UpsertTopicFails(s)
          \/ GenerateIDFatal(s)

\* BelongsToMissing, were the relationship created without looking for one
\* (CREATE).
BelongsToMissing_Always(s, m, t) == TRUE

\* MERGE (m)-[:BELONGS_TO]->(t) (734): the pattern creates a relationship
\* when the transaction reads none from m to t.
BelongsToMissing(s, m, t) ==
    ~ \E b \in View(s).belongsTo : b.msg = m.nid /\ b.topic = t.nid

\* MATCH (m:Message {messageId}) MATCH (t:Topic {name})
\* MERGE (m)-[:BELONGS_TO]->(t) (730-746): for every pair of the two MATCHes
\* a relationship is created unless the transaction reads one.
LinkMessageTopic(s) ==
    LET i == topicIdx[s]
        topicName == message[s].Topics[i]
        missing == {p \in MessagesById(s, message[s].MessageID)
                            \X TopicsByName(s, topicName) :
                      BelongsToMissing(s, p[1], p[2])}
    IN /\ pc[s] = "linkTopic"
       /\ \/ /\ ~ Blocked(s, {p[2].nid : p \in missing})
             /\ tx' = [tx EXCEPT ![s].belongsTo = @ \cup
                         {[eid |-> NewElement(s), msg |-> p[1].nid,
                           topic |-> p[2].nid] : p \in missing}]
             /\ elem' = [elem EXCEPT ![s] = @ + 1]
             /\ log' = [log EXCEPT ![s] =
                          Append(@, Entry("linkTopic", i, TRUE))]
          \/ /\ log' = [log EXCEPT ![s] =
                          Append(@, Entry("linkTopic", i, FALSE))]
             /\ UNCHANGED <<tx, elem>>
       /\ pc' = [pc EXCEPT ![s] = TopicLoop(s, i + 1)]
       /\ topicIdx' = [topicIdx EXCEPT ![s] = i + 1]
       /\ UNCHANGED <<store, message, userID, result, ret, now,
                      idCalls, turn, concurrent, reliable, randFails>>

\* CandidateRows, were the query without its WHERE clause.
CandidateRows_WithSelf(s) ==
    {[m1 |-> m1.nid, m2 |-> m2.nid, messageId |-> m2.messageId,
      embedding |-> m2.embedding] :
        m1 \in MessagesById(s, message[s].MessageID),
        m2 \in {m \in View(s).messages : m.userId = userID[s]}}

\* CandidateRows, were the messages of every owner candidates.
CandidateRows_AnyOwner(s) ==
    {[m1 |-> m1.nid, m2 |-> m2.nid, messageId |-> m2.messageId,
      embedding |-> m2.embedding] :
        m1 \in MessagesById(s, message[s].MessageID),
        m2 \in {m \in View(s).messages :
                  m.messageId # message[s].MessageID}}

\* CandidateRows, were the messages with the content of the new message no
\* candidates.
CandidateRows_OtherContent(s) ==
    {[m1 |-> m1.nid, m2 |-> m2.nid, messageId |-> m2.messageId,
      embedding |-> m2.embedding] :
        m1 \in MessagesById(s, message[s].MessageID),
        m2 \in {m \in View(s).messages :
                  /\ m.userId = userID[s]
                  /\ m.messageId # message[s].MessageID
                  /\ m.content # message[s].Content}}

\* MATCH (m1:Message {messageId}) MATCH (m2:Message {userId})
\* WHERE m2.messageId <> $messageId RETURN m2.messageId, m2.embedding, ...
\* (748-763): one row for every pair (m1, m2).
CandidateRows(s) ==
    {[m1 |-> m1.nid, m2 |-> m2.nid, messageId |-> m2.messageId,
      embedding |-> m2.embedding] :
        m1 \in MessagesById(s, message[s].MessageID),
        m2 \in {m \in View(s).messages :
                  m.userId = userID[s] /\ m.messageId # message[s].MessageID}}

\* FetchCandidatesFails, were the error logged and the scan skipped.
FetchCandidatesFails_Skips(s) ==
    /\ result' = [result EXCEPT ![s] = {}]
    /\ pc' = [pc EXCEPT ![s] = "commit"]
    /\ log' = [log EXCEPT ![s] = Append(@, Entry("fetchCandidates", 0, FALSE))]
    /\ UNCHANGED <<store, tx, message, userID, topicIdx, ret, now, idCalls,
                   turn, elem, concurrent, reliable, randFails>>

\* The similarity query fails: the transaction function returns the error
\* (761-763).
FetchCandidatesFails(s) == Abort(s, "fetchCandidates", 0)

FetchCandidates(s) ==
    /\ pc[s] = "fetchCandidates"
    /\ \/ /\ result' = [result EXCEPT ![s] = CandidateRows(s)]
          /\ pc' = [pc EXCEPT ![s] =
                      IF CandidateRows(s) = {} THEN "commit" ELSE "scan"]
          /\ log' = [log EXCEPT ![s] =
                       Append(@, Entry("fetchCandidates",
                                       Cardinality(CandidateRows(s)), TRUE))]
          /\ UNCHANGED <<store, tx, message, userID, topicIdx, ret,
                         now, idCalls, turn, elem, concurrent, reliable, randFails>>
       \/ FetchCandidatesFails(s)

\* MATCH (m1:Message {messageId1}) MATCH (m2:Message {messageId2})
\* MERGE (m1)-[r:CONTEXTUAL_LINK {similarity, timestamp}]-(m2) (786-799):
\* for every pair of the two MATCHes a relationship is created unless the
\* transaction reads one, in either direction, with these two properties.
EdgesToCreate(s, id1, id2, similarity, timestamp) ==
    {p \in MessagesById(s, id1) \X MessagesById(s, id2) :
       ~ \E r \in View(s).links :
             /\ {r.from, r.to} = {p[1].nid, p[2].nid}
             /\ SameSimilarity(r.similarity, similarity)
             /\ r.timestamp = timestamp}

\* One turn of the loop over the rows (768-806).
ScanCandidate(s) ==
    /\ pc[s] = "scan"
    /\ \E row \in result[s] :
         LET similarity == cosineSimilarity(message[s].Embedding, row.embedding)
             arg == [m2 |-> row.m2, similarity |-> similarity]
         IN /\ result' = [result EXCEPT ![s] = @ \ {row}]
            /\ pc' = [pc EXCEPT ![s] =
                        IF result[s] = {row} THEN "commit" ELSE "scan"]
            /\ IF AboveThreshold(similarity)
               THEN \/ /\ ~ Blocked(s, {row.m2})
                       /\ tx' = [tx EXCEPT ![s].links = @ \cup
                                   {[eid |-> NewElement(s), from |-> p[1].nid,
                                     to |-> p[2].nid,
                                     similarity |-> similarity,
                                     timestamp |-> now] :
                                      p \in EdgesToCreate(s,
                                              message[s].MessageID,
                                              row.messageId, similarity, now)}]
                       /\ elem' = [elem EXCEPT ![s] = @ + 1]
                       /\ log' = [log EXCEPT ![s] =
                                    Append(@, Entry("createEdge", arg, TRUE))]
                    \/ /\ log' = [log EXCEPT ![s] =
                                    Append(@, Entry("createEdge", arg, FALSE))]
                       /\ UNCHANGED <<tx, elem>>
               ELSE /\ log' = [log EXCEPT ![s] =
                                 Append(@, Entry("noEdge", arg, TRUE))]
                    /\ UNCHANGED <<tx, elem>>
    /\ UNCHANGED <<store, message, userID, topicIdx, ret, now,
                   idCalls, turn, concurrent, reliable, randFails>>

\* Commit, were every commit to fail with an error the driver retries, and
\* the driver to retry without a limit.
Commit_RetriesForever(s) ==
    /\ pc[s] = "commit"
    /\ tx' = [tx EXCEPT ![s] = EmptyTx]
    /\ pc' = [pc EXCEPT ![s] = "createMessage"]
    /\ topicIdx' = [topicIdx EXCEPT ![s] = 0]
    /\ elem' = [elem EXCEPT ![s] = 0]
    /\ idCalls' = [idCalls EXCEPT ![s] = log[s][3].arg[2]]
    /\ log' = [log EXCEPT ![s] = SubSeq(@, 1, 3)]
    /\ UNCHANGED <<store, message, userID, result, ret, now, turn,
                   concurrent, reliable, randFails>>

\* result.Consume() and the commit of session.WriteTransaction (812-819).
\* The transaction commits; or it fails for good and the error is returned;
\* or it fails with an error the driver retries: the transaction is rolled
\* back and the transaction function is run again, in a new transaction, with
\* the same message.  (Nothing of the rolled-back run was ever read by
\* anyone, so the re-run numbers its elements and generated ids as the first
\* run did.)
Commit(s) ==
    /\ pc[s] = "commit"
    /\ \/ /\ store' = Committed(s)
          /\ tx' = [tx EXCEPT ![s] = EmptyTx]
          /\ ret' = [ret EXCEPT ![s] = "ok"]
          /\ pc' = [pc EXCEPT ![s] = "done"]
          /\ log' = [log EXCEPT ![s] = Append(@, Entry("commit", 0, TRUE))]
          /\ UNCHANGED <<message, userID, topicIdx, result, now,
                         idCalls, turn, elem, concurrent, reliable, randFails>>
       \/ Abort(s, "commit", 0)
       \/ /\ tx' = [tx EXCEPT ![s] = EmptyTx]
          /\ pc' = [pc EXCEPT ![s] = "createMessage"]
          /\ topicIdx' = [topicIdx EXCEPT ![s] = 0]
          /\ elem' = [elem EXCEPT ![s] = 0]
          /\ idCalls' = [idCalls EXCEPT ![s] = log[s][3].arg[2]]
          /\ log' = [log EXCEPT ![s] = SubSeq(@, 1, 3)]
          /\ UNCHANGED <<store, message, userID, result, ret, now, turn,
                         concurrent, reliable, randFails>>

\* Return, were the error of addMessageAndCreateEdges fatal (log.Fatalf).
Return_Halts(s) ==
    /\ pc[s] = "done"
    /\ pc' = [pc EXCEPT ![s] =
                IF ret[s] = "error" THEN "exited"
                ELSE IF message[s].Sender = "human" THEN "completion" ELSE "idle"]
    /\ message' = [message EXCEPT ![s] = NoMessage]
    /\ userID' = [userID EXCEPT ![s] = NoId]
    /\ log' = [log EXCEPT ![s] = <<>>]
    /\ ret' = [ret EXCEPT ![s] = "none"]
    /\ topicIdx' = [topicIdx EXCEPT ![s] = 0]
    /\ elem' = [elem EXCEPT ![s] = 0]
    /\ UNCHANGED <<store, tx, result, now, idCalls, turn, concurrent, reliable, randFails>>

\* addMessageAndCreateEdges has returned, printMessageNode has logged the
\* error if there was one (630-632) and returns to main: after the human
\* message main calls the completion service (959), after the reply it is
\* back at the prompt (940).
Return(s) ==
    /\ pc[s] = "done"
    /\ pc' = [pc EXCEPT ![s] =
                IF message[s].Sender = "human" THEN "completion" ELSE "idle"]
    /\ message' = [message EXCEPT ![s] = NoMessage]
    /\ userID' = [userID EXCEPT ![s] = NoId]
    /\ log' = [log EXCEPT ![s] = <<>>]
    /\ ret' = [ret EXCEPT ![s] = "none"]
    /\ topicIdx' = [topicIdx EXCEPT ![s] = 0]
    /\ elem' = [elem EXCEPT ![s] = 0]
    /\ UNCHANGED <<store, tx, result, now, idCalls, turn, concurrent, reliable, randFails>>

\* The completion service fails: main prints the error and continues with
\* the next turn (967-970).
ChatCompletionFails(s) ==
    /\ pc[s] = "completion"
    /\ pc' = [pc EXCEPT ![s] = "idle"]
    /\ UNCHANGED <<store, tx, message, userID, topicIdx, result, log, ret, now,
                   idCalls, turn, elem, concurrent, reliable, randFails>>

\* The input ends or the user types "exit": main leaves the loop (941-949).
Exit(s) ==
    /\ pc[s] = "idle"
    /\ concurrent \/ s = MainSession
    /\ pc' = [pc EXCEPT ![s] = "exited"]
    /\ UNCHANGED <<store, tx, message, userID, topicIdx, result, log, ret, now,
                   idCalls, turn, elem, concurrent, reliable, randFails>>

Next ==
    \/ \E s \in Sessions : PrintMessageNode(s)
    \/ \E s \in Sessions : CreateMessageNode(s)
    \/ \E s \in Sessions : LinkOwnership(s)
    \/ \E s \in Sessions : UpdateLastActive(s)
    \/ \E s \in Sessions : UpsertTopic(s)
    \/ \E s \in Sessions : LinkMessageTopic(s)
    \/ \E s \in Sessions : FetchCandidates(s)
    \/ \E s \in Sessions : ScanCandidate(s)
    \/ \E s \in Sessions : Commit(s)
    \/ \E s \in Sessions : Return(s)
    \/ \E s \in Sessions : ChatCompletionFails(s)
    \/ \E s \in Sessions : Exit(s)

Spec == Init /\ [][Next]_vars

SpecConcurrent == InitConcurrent /\ [][Next]_vars

SpecRand == InitRand /\ [][Next]_vars

\* What keeps a conversation going: every call in flight returns (the
\* completion service, each statement of the transaction), and the driver
\* gives up retrying a transaction after its maximum retry time, so that a
\* commit ends with the transaction committed or with an error.  Nothing
\* makes the user type a line at the prompt.
Fairness ==
    \A s \in Sessions :
        /\ WF_vars(pc[s] = "completion" /\ (PrintMessageNode(s) \/ ChatCompletionFails(s)))
        /\ WF_vars(CreateMessageNode(s))
        /\ WF_vars(LinkOwnership(s))
        /\ WF_vars(UpdateLastActive(s))
        /\ WF_vars(UpsertTopic(s))
        /\ WF_vars(LinkMessageTopic(s))
        /\ WF_vars(FetchCandidates(s))
        /\ WF_vars(ScanCandidate(s))
        /\ SF_vars(Commit(s) /\ pc'[s] = "done")
        /\ WF_vars(Return(s))

SpecLive == InitReliable /\ [][Next]_vars /\ Fairness

\* ------------------------------------------- extractTopics, called alone
\* The state in printMessageNode where extractTopics has been called with
\* the arguments args (pc op), and nothing else has happened yet.
InitCall(op, args) ==
    /\ store = [EmptyGraph EXCEPT !.users = {createUser(s, 0) : s \in Sessions}]
    /\ tx = [s \in Sessions |-> EmptyTx]
    /\ pc = [s \in Sessions |-> IF s = MainSession THEN op ELSE "idle"]
    /\ message = [s \in Sessions |-> NoMessage]
    /\ userID = [s \in Sessions |-> NoId]
    /\ topicIdx = [s \in Sessions |-> 0]
    /\ result = [s \in Sessions |-> {}]
    /\ log = [s \in Sessions |->
                IF s = MainSession THEN <<Entry("call", args, TRUE)>> ELSE <<>>]
    /\ ret = [s \in Sessions |-> "none"]
    /\ now = 0
    /\ idCalls = [s \in Sessions |-> 1]
    /\ turn = [s \in Sessions |-> 0]
    /\ elem = [s \in Sessions |-> 0]
    /\ concurrent = FALSE
    /\ reliable = FALSE
    /\ randFails = FALSE

\* The pieces of the texts the completion service answers to the tagging
\* prompt: "A/o", " a/o", " Gia!y", " zzz", " No tag", "Kho^ng co/ tag", "",
\* and "A/o" in double quotes.
TextPieces ==
    {<<"A/","o">>, <<" ","a/","o">>, <<" ","G","i","a!","y">>,
     <<" ","z","z","z">>, <<" ","N","o"," ","t","a","g">>,
     <<"K","h","o^","n","g"," ","c","o/"," ","t","a","g">>, <<>>,
     <<"\"","A/","o","\"">>}

RECURSIVE Join(_)
Join(pieces) ==
    IF Len(pieces) = 1 THEN pieces[1]
    ELSE pieces[1] \o <<Comma>> \o Join(Tail(pieces))

\* resp.Choices[0].Message.Content (569): up to MaxPieces pieces, joined by
\* commas.
TopicTexts ==
    {Join(pieces) : pieces \in UNION {[1..n -> TextPieces] : n \in 1..MaxPieces}}

InitTopics == \E content \in TopicTexts : InitCall("extractTopics", content)

\* extractTopics cleans the text the completion service answered and
\* returns the topics (569-601).
ExtractTopics(s) ==
    /\ pc[s] = "extractTopics"
    /\ pc' = [pc EXCEPT ![s] = "extracted"]
    /\ log' = [log EXCEPT ![s] =
                 Append(@, Entry("extractTopics", cleanedTopics(log[s][1].arg),
                                 TRUE))]
    /\ UNCHANGED <<store, tx, message, userID, topicIdx, result, ret, now,
                   idCalls, turn, elem, concurrent, reliable, randFails>>

NextTopics == \E s \in Sessions : ExtractTopics(s)

SpecTopics == InitTopics /\ [][NextTopics]_vars

\* ---------------------------------------- cosineSimilarity, called alone
\* Vectors of up to MaxDim components.
Components == {-1, 0, 1}
Vectors == UNION {[1..n -> Components] : n \in 0..MaxDim}

InitSimilarity ==
    \E a \in Vectors, b \in Vectors : InitCall("cosineSimilarity", <<a, b>>)

\* cosineSimilarity(a, b) returns (885-902).
CosineSimilarity(s) ==
    /\ pc[s] = "cosineSimilarity"
    /\ pc' = [pc EXCEPT ![s] = "compared"]
    /\ log' = [log EXCEPT ![s] =
                 Append(@, Entry("cosineSimilarity",
                                 cosineSimilarity(log[s][1].arg[1],
                                                  log[s][1].arg[2]), TRUE))]
    /\ UNCHANGED <<store, tx, message, userID, topicIdx, result, ret, now,
                   idCalls, turn, elem, concurrent, reliable, randFails>>

NextSimilarity == \E s \in Sessions : CosineSimilarity(s)

SpecSimilarity == InitSimilarity /\ [][NextSimilarity]_vars

\* ================================================================ claims
Last(seq) == seq[Len(seq)]

\* The step is one of session s.
StepOf(s) == pc'[s] # pc[s] \/ log'[s] # log[s]

\* The entries of log[s] for the call op.
Entries(s, op) == {i \in DOMAIN log[s] : log[s][i].op = op}

\* The last call of session s was op, and it failed.
Failed(s, op) == log[s] # <<>> /\ Last(log[s]).op = op /\ ~ Last(log[s]).ok

\* The element was written by the current ingestion of session s.
OfIngestion(s, id) == id[1] = s /\ id[2] = turn[s]

\* The committed Message nodes of the current ingestion of session s.
MessageNodes(s) == {m \in store.messages : OfIngestion(s, m.nid)}

\* The committed graph holds nothing of the current ingestion of session s.
NothingPersisted(s) ==
    /\ MessageNodes(s) = {}
    /\ \A t \in store.topics : ~ OfIngestion(s, t.nid)
    /\ \A e \in store.owns \cup store.belongsTo \cup store.links :
           ~ OfIngestion(s, e.eid)

StructuralOps == {"createMessage", "linkOwnership", "updateLastActive"}
AuxiliaryOps == {"upsertTopic", "linkTopic", "createEdge"}
FatalOps == StructuralOps \cup {"fetchCandidates", "commit"}

\* addMessageAndCreateEdges has returned to session s.
Done(s) == pc[s] = "done"
Committed_(s) == Done(s) /\ ret[s] = "ok"
Aborted(s) == Done(s) /\ ret[s] = "error"

\* A step of session s before its commit leaves the committed graph alone.
WritesNothingBeforeCommit(s) ==
    (StepOf(s) /\ InFlight(s) /\ pc[s] # "commit") => store' = store

\* C1: when creating the Message node, creating the OWNS link or updating
\* lastActive fails, the ingestion ends Aborted: the error is returned, and
\* the committed graph is what it was when the ingestion began, with no
\* element of the ingestion in it (no step before the failure wrote to it,
\* and the failing step writes nothing).
C1_StructuralFailureAborts ==
    [][\A s \in Sessions :
         /\ WritesNothingBeforeCommit(s)
         /\ (StepOf(s) /\ \E op \in StructuralOps : Failed(s, op)')
              => /\ Aborted(s)'
                 /\ store' = store
                 /\ tx'[s] = EmptyTx
                 /\ NothingPersisted(s)']_vars

\* The lastActive update of a human message failed after the Message node
\* and the OWNS link had been written, and the graph holds no message.
C1_Witness ==
    \E s \in Sessions :
        /\ Aborted(s)
        /\ Failed(s, "updateLastActive")
        /\ \E i \in Entries(s, "createMessage") : log[s][i].ok
        /\ \E i \in Entries(s, "linkOwnership") : log[s][i].ok
        /\ store.messages = {}
        /\ store.owns = {}

\* The topics of message.Topics have all been taken by the loop.
TopicsProcessed(s) ==
    \/ pc[s] \in {"fetchCandidates", "scan", "commit"}
    \/ Done(s) /\ Last(log[s]).op \in {"fetchCandidates", "commit"}

\* C2: a failure of a topic upsert, of a topic link or of an edge creation
\* never aborts the ingestion; after a failed upsert the link of that topic is
\* not attempted and the loop goes on with the remaining topics, after a
\* failed link or edge creation with the remaining topics and candidates; and
\* the ingestion that commits has committed the Message node, its OWNS link
\* and every topic link and edge whose creation succeeded.
C2_AuxiliaryFailureTolerated ==
    \A s \in Sessions :
        /\ Aborted(s) => Last(log[s]).op \notin AuxiliaryOps
        /\ TopicsProcessed(s) =>
             \A i \in DOMAIN message[s].Topics :
                /\ Cardinality({j \in Entries(s, "upsertTopic") :
                                   log[s][j].arg = i}) = 1
                /\ \A j \in Entries(s, "upsertTopic") :
                      log[s][j].arg = i =>
                         (log[s][j].ok <=>
                            \E k \in Entries(s, "linkTopic") : log[s][k].arg = i)
        /\ Committed_(s) =>
             /\ Cardinality(MessageNodes(s)) = 1
             /\ \A m \in MessageNodes(s) :
                   /\ \A u \in store.users :
                         u.userId = userID[s] =>
                            \E o \in store.owns : o.user = u.nid /\ o.msg = m.nid
                   /\ \A k \in Entries(s, "linkTopic") :
                         log[s][k].ok =>
                            \E b \in store.belongsTo, t \in store.topics :
                               /\ b.msg = m.nid /\ b.topic = t.nid
                               /\ t.name = message[s].Topics[log[s][k].arg]
                   /\ \A k \in Entries(s, "createEdge") :
                         log[s][k].ok =>
                            \E r \in store.links :
                               /\ {r.from, r.to} = {m.nid, log[s][k].arg.m2}
                               /\ r.similarity = log[s][k].arg.similarity
             /\ \A k \in Entries(s, "fetchCandidates") :
                   Cardinality(Entries(s, "createEdge") \cup Entries(s, "noEdge"))
                      = log[s][k].arg

\* An ingestion committed although the upsert of its first topic and the
\* creation of an edge failed; its second topic was upserted and linked.
C2_Witness ==
    \E s \in Sessions :
        /\ Committed_(s)
        /\ \E j \in Entries(s, "upsertTopic") : log[s][j].arg = 1 /\ ~ log[s][j].ok
        /\ \E k \in Entries(s, "linkTopic") : log[s][k].arg = 2 /\ log[s][k].ok
        /\ \E k \in Entries(s, "createEdge") : ~ log[s][k].ok
        /\ store.belongsTo # {}

\* C3: when the similarity query fails the ingestion ends Aborted: the error
\* is returned and the Message node, the OWNS link, the lastActive update and
\* the Topic nodes and BELONGS_TO edges the ingestion wrote are rolled back
\* together (the committed graph is what it was when the ingestion began).
C3_CandidateFailureAborts ==
    [][\A s \in Sessions :
         /\ WritesNothingBeforeCommit(s)
         /\ (StepOf(s) /\ Failed(s, "fetchCandidates")')
              => /\ pc[s] = "fetchCandidates"
                 /\ Aborted(s)'
                 /\ store' = store
                 /\ tx'[s] = EmptyTx
                 /\ NothingPersisted(s)']_vars

\* The similarity query of a human message failed one second after the users
\* were created, after a topic had been upserted and linked and lastActive
\* updated; the graph holds no message and no topic, lastActive is the old one.
C3_Witness ==
    \E s \in Sessions :
        /\ Aborted(s)
        /\ Failed(s, "fetchCandidates")
        /\ \E k \in Entries(s, "linkTopic") : log[s][k].ok
        /\ \E k \in Entries(s, "updateLastActive") : log[s][k].arg = 1
        /\ store.messages = {} /\ store.topics = {} /\ store.belongsTo = {}
        /\ \A u \in store.users : u.lastActive = 0

\* The transaction of the step commits the ingestion of session s.
Commits(s) == StepOf(s) /\ pc[s] = "commit" /\ Committed_(s)'

\* C4: an ingestion changes the owner's lastActive if and only if the sender
\* of the message is "human": the update is called for a human message and
\* for no other, the commit of a human message sets lastActive of the owner
\* to the time of the update and changes nothing else of any User node, and
\* every other step, the commit of any other message included, leaves every
\* User node as it is.
C4_LastActiveIffHuman ==
    [][\A s \in Sessions :
         /\ Entries(s, "updateLastActive")' # {} => message'[s].Sender = "human"
         /\ (pc'[s] \in {"upsertTopic", "linkTopic", "fetchCandidates", "scan",
                         "commit"} /\ message'[s].Sender = "human")
               => Entries(s, "updateLastActive")' # {}
         /\ StepOf(s) =>
              IF Commits(s) /\ message[s].Sender = "human"
              THEN \E k \in Entries(s, "updateLastActive") :
                      store'.users =
                        {IF u.userId = userID[s]
                         THEN [u EXCEPT !.lastActive = log[s][k].arg]
                         ELSE u : u \in store.users}
              ELSE store'.users = store.users]_vars

\* A message of sender "ai" was committed one second after a human message of
\* the same owner: lastActive of the owner is still the time of the human one.
C4_Witness ==
    \E s \in Sessions :
        /\ Committed_(s)
        /\ message[s].Sender = "ai"
        /\ now = 1
        /\ \E u \in store.users : u.userId = userID[s] /\ u.lastActive = 0
        /\ \E m \in store.messages :
              m.sender = "human" /\ m.userId = userID[s] /\ m.timestamp = 0
        /\ \E m \in MessageNodes(s) : m.timestamp = 1

\* C5: for every candidate read, the creation of a CONTEXTUAL_LINK edge is
\* attempted if and only if the similarity is strictly greater than 0.5, that
\* is dot > 0 and 4 * dot^2 > normA * normB; a similarity of exactly 0.5
\* creates no edge.
C5_EdgeIffAboveThreshold ==
    \A s \in Sessions :
        /\ \A k \in Entries(s, "createEdge") \cup Entries(s, "noEdge") :
              LET similarity == log[s][k].arg.similarity
              IN (log[s][k].op = "createEdge") <=>
                    (similarity.dot > 0 /\
                     4 * similarity.dot * similarity.dot > similarity.norm2)
        /\ \A r \in tx[s].links :
              r.similarity.dot > 0 /\
              4 * r.similarity.dot * r.similarity.dot > r.similarity.norm2

\* A candidate whose similarity is exactly 0.5 (dot 1, norms 1 and 4) was
\* read, and no edge was attempted for it.
C5_Witness ==
    \E s \in Sessions :
        /\ Committed_(s)
        /\ \E k \in Entries(s, "noEdge") :
              log[s][k].arg.similarity = [dot |-> 1, norm2 |-> 4]
        /\ store.links = {}

\* The Message node, OWNS links and topic links of the committed ingestion
\* of session s are in the committed graph.
NodeAndLinksCommitted(s) ==
    /\ Cardinality(MessageNodes(s)) = 1
    /\ \A m \in MessageNodes(s) :
          /\ m.messageId = message[s].MessageID
          /\ m.embedding = message[s].Embedding
          /\ m.topics = message[s].Topics
          /\ \A u \in store.users :
                u.userId = userID[s] =>
                   \E o \in store.owns : o.user = u.nid /\ o.msg = m.nid
          /\ \A k \in Entries(s, "linkTopic") :
                log[s][k].ok =>
                   \E b \in store.belongsTo, t \in store.topics :
                      /\ b.msg = m.nid /\ b.topic = t.nid
                      /\ t.name = message[s].Topics[log[s][k].arg]

\* C6: when getEmbedding fails the message is ingested with the empty
\* embedding: the failure aborts nothing, no edge creation is attempted
\* whatever the candidates are, and the ingestion that commits has committed
\* the Message node with the empty embedding, its OWNS and topic links, and
\* no CONTEXTUAL_LINK edge at that node.
C6_EmbeddingFailureDegrades ==
    \A s \in Sessions :
        (log[s] # <<>> /\ ~ log[s][1].ok) =>
            /\ message[s].Embedding = <<>>
            /\ Aborted(s) => Last(log[s]).op \in FatalOps
            /\ Entries(s, "createEdge") = {}
            /\ tx[s].links = {}
            /\ Committed_(s) =>
                 /\ NodeAndLinksCommitted(s)
                 /\ \A m \in MessageNodes(s) :
                       /\ m.embedding = <<>>
                       /\ \A r \in store.links : m.nid \notin {r.from, r.to}

\* A message whose embedding failed was committed with a topic link, after it
\* was compared with a candidate that has an embedding.
C6_Witness ==
    \E s \in Sessions :
        /\ Committed_(s)
        /\ ~ log[s][1].ok
        /\ \E k \in Entries(s, "linkTopic") : log[s][k].ok
        /\ \E k \in Entries(s, "noEdge") :
              \E m \in store.messages :
                 m.nid = log[s][k].arg.m2 /\ m.embedding # <<>>

\* C7: when extractTopics fails or finds no topic the message is ingested with
\* no topic: the failure aborts nothing, no topic is upserted or linked, and
\* the ingestion that commits has committed the Message node with the empty
\* topic list and no BELONGS_TO edge, after the similarity query was run and
\* every other message of the owner was compared.
C7_NoTopicsDegrades ==
    \A s \in Sessions :
        /\ (Len(log[s]) >= 2 /\ ~ log[s][2].ok) => message[s].Topics = <<>>
        /\ (Len(log[s]) >= 2 /\ message[s].Topics = <<>>) =>
            /\ Aborted(s) => Last(log[s]).op \in FatalOps
            /\ Entries(s, "upsertTopic") \cup Entries(s, "linkTopic") = {}
            /\ tx[s].topics = {} /\ tx[s].belongsTo = {}
            /\ Committed_(s) =>
                 /\ NodeAndLinksCommitted(s)
                 /\ \A m \in MessageNodes(s) :
                       /\ m.topics = <<>>
                       /\ \A b \in store.belongsTo : b.msg # m.nid
                       /\ \E k \in Entries(s, "fetchCandidates") :
                             /\ log[s][k].ok
                             /\ log[s][k].arg =
                                  Cardinality({c \in store.messages :
                                                 /\ c.userId = userID[s]
                                                 /\ c.nid # m.nid})
                             /\ Cardinality(Entries(s, "createEdge")
                                              \cup Entries(s, "noEdge"))
                                  = log[s][k].arg

\* A message whose topic extraction failed was committed, and an edge to a
\* candidate was created for it.
C7_Witness ==
    \E s \in Sessions :
        /\ Committed_(s)
        /\ ~ log[s][2].ok
        /\ \E k \in Entries(s, "createEdge") : log[s][k].ok
        /\ \E r \in store.links, m \in MessageNodes(s) : r.from = m.nid

\* C8: every committed Message node has exactly one incoming OWNS edge, from
\* a User node, whatever userID the ingestion was called with.
C8_ExactlyOneOwner ==
    \A m \in store.messages :
        Cardinality({o \in store.owns :
                       o.msg = m.nid /\ \E u \in store.users : u.nid = o.user}) = 1

\* C9: there is at most one Topic node of a name, also when sessions ingest
\* at the same time.
C9_OneTopicPerName ==
    \A t1, t2 \in store.topics : t1.name = t2.name => t1 = t2

\* C10: a Topic node gets its id and creation time when it is created and
\* keeps them: no step changes or removes a committed Topic node; every upsert
\* generates an id, and it writes a Topic node, with that id and the time of
\* the call, only if the transaction reads none of that name.
C10_TopicUpsertIdempotent ==
    [][/\ \A t \in store.topics : t \in store'.topics
       /\ \A s \in Sessions :
             (StepOf(s) /\ pc[s] = "upsertTopic") =>
                LET topicName == message[s].Topics[topicIdx[s]]
                    before == store.topics \cup tx[s].topics
                    after == store'.topics \cup tx'[s].topics
                IN /\ idCalls'[s] = idCalls[s] + 1
                   /\ before \subseteq after
                   /\ (\E t \in before : t.name = topicName) => after = before
                   /\ \A t \in after \ before :
                         /\ t.name = topicName
                         /\ t.topicId = <<s, idCalls'[s]>>
                         /\ t.createdAt = now]_vars

\* A topic committed in second 0 was upserted again in second 1, with a new
\* id: no node was written and the committed node has its first id and time.
C10_Witness ==
    \E s \in Sessions :
        /\ pc[s] = "linkTopic"
        /\ Last(log[s]).op = "upsertTopic" /\ Last(log[s]).ok
        /\ now = 1
        /\ tx[s].topics = {}
        /\ \E t \in store.topics :
              /\ t.name = message[s].Topics[topicIdx[s]]
              /\ t.createdAt = 0
              /\ t.topicId # <<s, idCalls[s]>>

\* C11: there is at most one BELONGS_TO relationship from a Message node to
\* a Topic node, in the committed graph and in what any transaction reads,
\* also for a message whose topic list names a topic twice (every message of
\* concurrent sessions has the topic list (A/o, A/o)).
C11_OneBelongsToPerPair ==
    \A s \in Sessions :
        \A b1, b2 \in View(s).belongsTo :
            (b1.msg = b2.msg /\ b1.topic = b2.topic) => b1 = b2

\* A message with the topic list (A/o, A/o) was committed after both upserts
\* and both links had succeeded, and has one BELONGS_TO relationship.
C11_Witness ==
    \E s \in Sessions :
        /\ Committed_(s)
        /\ message[s].Topics = <<Tag_Ao, Tag_Ao>>
        /\ \A i \in {1, 2} :
              \E k \in Entries(s, "linkTopic") : log[s][k].arg = i /\ log[s][k].ok
        /\ \E m \in MessageNodes(s) :
              /\ m.topics = <<Tag_Ao, Tag_Ao>>
              /\ Cardinality({b \in store.belongsTo : b.msg = m.nid}) = 1

\* Two Message nodes joined by the CONTEXTUAL_LINK relationship r.
Joined(r) == {r.from, r.to}

\* C12: after any ingestions, one after another or overlapping, each under
\* its own generated id, there is at most one CONTEXTUAL_LINK relationship
\* between two Message nodes, whatever its direction, in the committed graph
\* and in what any transaction reads.
C12_OneLinkPerPair ==
    \A s \in Sessions :
        \A r1, r2 \in View(s).links : Joined(r1) = Joined(r2) => r1 = r2

\* Two sessions have each committed a message of the same owner, and one
\* relationship joins the two Message nodes.
C12_Witness ==
    \E m1, m2 \in store.messages :
        /\ m1.nid[1] # m2.nid[1]
        /\ m1.userId = m2.userId
        /\ Cardinality({r \in store.links : Joined(r) = {m1.nid, m2.nid}}) = 1
        /\ \A s \in Sessions : pc[s] \in {"done", "completion", "idle", "exited"}

\* The committed messages the message of session s repeats: same owner, same
\* content, same embedding.
Repeats(s) ==
    {m \in store.messages :
       /\ m.userId = userID[s]
       /\ m.content = message[s].Content
       /\ m.embedding = message[s].Embedding}

C14_LoopSurvivesFailure ==
    /\ [][\A s \in Sessions :
            (StepOf(s) /\ Aborted(s)) =>
               /\ pc'[s] = IF message[s].Sender = "human" THEN "completion"
                           ELSE "idle"
               /\ store' = store]_vars
    /\ \A s \in Sessions : Aborted(s) ~> (pc[s] = "idle")

\* The ingestion of the reply returned an error after the human message of
\* the turn had been committed.
C14_Witness ==
    \E s \in Sessions :
        /\ Aborted(s)
        /\ message[s].Sender = "ai"
        /\ turn[s] = 2
        /\ Cardinality(store.messages) = 1

\* The nodes of the rows the scan of session s has read.
Scanned(s) ==
    {log[s][k].arg.m2 : k \in Entries(s, "createEdge") \cup Entries(s, "noEdge")}

\* C15: when an ingestion has committed and no edge creation failed, the
\* candidates it scanned are the other messages of the owner, never the new
\* message; the new message has exactly one CONTEXTUAL_LINK relationship,
\* carrying the similarity of the two embeddings, to each of them whose
\* similarity is above the threshold, and none to any other message or to
\* itself.
C15_ExactLinkSet ==
    \A s \in Sessions :
        (Committed_(s) /\ \A k \in Entries(s, "createEdge") : log[s][k].ok) =>
           \A m \in MessageNodes(s) :
              /\ Scanned(s) = {m0.nid : m0 \in {x \in store.messages \ {m} :
                                                  x.userId = userID[s]}}
              /\ m.nid \notin Scanned(s)
              /\ \A r \in store.links : Joined(r) # {m.nid}
              /\ \A m0 \in store.messages \ {m} :
                    LET similarity == cosineSimilarity(m.embedding, m0.embedding)
                        joining == {r \in store.links : Joined(r) = {m.nid, m0.nid}}
                    IN IF m0.userId = userID[s] /\ AboveThreshold(similarity)
                       THEN /\ Cardinality(joining) = 1
                            /\ \A r \in joining :
                                  SameSimilarity(r.similarity, similarity)
                       ELSE joining = {}

\* A second message of the owner was committed and is linked, with
\* similarity 1, to the first, which has the same embedding.
C15_Witness ==
    \E s \in Sessions :
        /\ Committed_(s)
        /\ userID[s] = createUser(s, 0).userId
        /\ \A k \in Entries(s, "createEdge") : log[s][k].ok
        /\ \E m \in MessageNodes(s), m0 \in store.messages, r \in store.links :
              /\ m0.nid # m.nid
              /\ m0.userId = m.userId
              /\ m0.embedding = m.embedding /\ m.embedding # <<>>
              /\ Joined(r) = {m.nid, m0.nid}
              /\ r.similarity = [dot |-> 1, norm2 |-> 1]
              /\ Scanned(s) = {m0.nid}

Extracted(s) == pc[s] = "extracted"
RawText(s) == log[s][1].arg
TrimmedText(s) == Trim(TrimSpace(RawText(s)), {"\"", "'"})
Topics(s) == Last(log[s]).arg

\* C17: extractTopics returns no topics by the sentinel rule exactly when
\* the trimmed text is empty or equals, whatever the case of its letters,
\* "kho^ng co/ tag" or "no tag"; for every other text, one that lists valid
\* tags next to a sentinel phrase included, it returns the matches of the
\* comma-separated candidates.
C17_SentinelByEquality ==
    \A s \in Sessions :
        Extracted(s) =>
           Topics(s) =
              IF \/ TrimSpace(TrimmedText(s)) = <<>>
                 \/ EqualFold(TrimmedText(s), Str_khongCoTag)
                 \/ EqualFold(TrimmedText(s), Str_noTag)
              THEN <<>>
              ELSE CleanPieces(Split(TrimmedText(s), Comma))

\* No tag occurs twice in the list.
NoDuplicates(topics) ==
    \A i, j \in DOMAIN topics : topics[i] = topics[j] => i = j

\* C18: the list extractTopics returns holds no tag twice, also when several
\* candidates match the same valid tag, and neither does the topic list of
\* a Message node.
C18_NoDuplicateTopics ==
    /\ \A s \in Sessions : Extracted(s) => NoDuplicates(Topics(s))
    /\ \A s \in Sessions : \A m \in View(s).messages : NoDuplicates(m.topics)

\* The comma-separated candidates of the trimmed text.
Candidates(s) == Split(TrimmedText(s), Comma)

\* Candidate j is the tag, whatever the case of its letters.
MatchesTag(s, j, tag) == EqualFold(TrimSpace(Candidates(s)[j]), tag)

\* The text holds no sentinel phrase.
NoSentinel(s) ==
    /\ ~ Contains(ToLower(TrimmedText(s)), Str_khongCoTag)
    /\ ~ Contains(ToLower(TrimmedText(s)), Str_noTag)

\* C19: for every text, extractTopics returns without an error; every tag
\* it returns is a valid tag in the spelling of validTags; the tags are
\* matches, whatever the case of the letters, of candidates of the text, in
\* the order of those candidates; and candidates that match no valid tag
\* are dropped (a text that holds no sentinel phrase yields one tag for each
\* of its matching candidates, and nothing else).
C19_CanonicalInOrder ==
    \A s \in Sessions :
        Extracted(s) =>
           LET out == Topics(s)
               matching == {j \in DOMAIN Candidates(s) :
                              \E k \in DOMAIN validTags :
                                 MatchesTag(s, j, validTags[k])}
           IN /\ Last(log[s]).ok
              /\ \A i \in DOMAIN out : \E k \in DOMAIN validTags : out[i] = validTags[k]
              /\ \E f \in [DOMAIN out -> DOMAIN Candidates(s)] :
                    /\ \A i, j \in DOMAIN out : i < j => f[i] < f[j]
                    /\ \A i \in DOMAIN out : MatchesTag(s, f[i], out[i])
              /\ NoSentinel(s) => Len(out) = Cardinality(matching)

\* The text " a/o, Gia!y, zzz" gave the tags (A/o, Gia!y).
C19_Witness ==
    \E s \in Sessions :
        /\ Extracted(s)
        /\ RawText(s) = <<" ","a/","o",","," ","G","i","a!","y",","," ","z","z","z">>
        /\ Topics(s) = <<Tag_Ao, Tag_Giay>>

\* cosineSimilarity has returned to session s: its arguments and its value.
Compared(s) == pc[s] = "compared"
VectorA(s) == log[s][1].arg[1]
VectorB(s) == log[s][1].arg[2]
Similarity(s) == Last(log[s]).arg

\* Every component of the vector is 0: its norm is 0.
ZeroNorm(v) == \A i \in DOMAIN v : v[i] = 0

\* C20: cosineSimilarity(a, b) is 0.0 whenever a and b differ in length, one
\* of them is empty, or one of them has norm 0; so the similarity of an empty
\* embedding with any embedding, as first or as second argument, is 0.0.
C20_DegenerateIsZero ==
    \A s \in Sessions :
        Compared(s) =>
           ((\/ Len(VectorA(s)) # Len(VectorB(s))
             \/ Len(VectorA(s)) = 0 \/ Len(VectorB(s)) = 0
             \/ ZeroNorm(VectorA(s)) \/ ZeroNorm(VectorB(s)))
              => Similarity(s) = Zero)

\* The empty embedding was compared with the embedding (1, 0), as first or
\* as second argument: the value is 0.0.
C20_Witness ==
    \E s \in Sessions :
        /\ Compared(s)
        /\ \/ VectorA(s) = <<>> /\ VectorB(s) = <<1, 0>>
           \/ VectorA(s) = <<1, 0>> /\ VectorB(s) = <<>>
        /\ Similarity(s) = Zero

\* The properties of a User node but lastActive.
Identity(u) ==
    [nid |-> u.nid, userId |-> u.userId, name |-> u.name,
     createdAt |-> u.createdAt]

\* C21: no step of an ingestion changes or removes what the committed graph
\* holds, but lastActive of the owner: every committed Message node, Topic
\* node and OWNS, BELONGS_TO and CONTEXTUAL_LINK relationship is there after
\* the step with the properties it had, no User node is removed or added,
\* a User node keeps every property but lastActive, and lastActive changes
\* only of the user whose id the committing ingestion was called with.
C21_OnlyLastActiveChanges ==
    [][/\ store.messages \subseteq store'.messages
       /\ store.topics \subseteq store'.topics
       /\ store.owns \subseteq store'.owns
       /\ store.belongsTo \subseteq store'.belongsTo
       /\ store.links \subseteq store'.links
       /\ {Identity(u) : u \in store'.users} = {Identity(u) : u \in store.users}
       /\ Cardinality(store'.users) = Cardinality(store.users)
       /\ \A u \in store.users :
             u \in store'.users \/
             \E s \in Sessions :
                StepOf(s) /\ pc[s] = "commit" /\ u.userId = userID[s]]_vars

\* A second human message was committed one second after the first: the
\* first message, its topic and the other user are as they were, the two
\* messages are linked, and lastActive of the owner is the new second.
C21_Witness ==
    \E s \in Sessions :
        /\ Committed_(s)
        /\ message[s].Sender = "human"
        /\ turn[s] = 2
        /\ \E u \in store.users :
              /\ u.userId = userID[s]
              /\ u.lastActive = 1 /\ u.createdAt = 0
              /\ \A v \in store.users \ {u} : v = createUser(v.nid[1], 0)
        /\ \E m0 \in store.messages : m0.timestamp = 0 /\ m0.sender = "human"
        /\ \E t \in store.topics : t.createdAt = 0
        /\ store.links # {}

\* C22: no two committed Message nodes have the same messageId, whatever
\* ingestions committed, aborted or were run again by the transaction
\* wrapper, also when the reads of the random source fail.
C22_UniqueMessageId ==
    \A m1, m2 \in store.messages : m1.messageId = m2.messageId => m1 = m2

\* The place of a call in the order of the steps of an ingestion.
Rank(op) ==
    CASE op = "getEmbedding" -> 1
      [] op = "extractTopics" -> 2
      [] op = "generateID" -> 3
      [] op = "createMessage" -> 4
      [] op = "linkOwnership" -> 5
      [] op = "updateLastActive" -> 6
      [] op \in {"upsertTopic", "linkTopic"} -> 7
      [] op = "fetchCandidates" -> 8
      [] op \in {"createEdge", "noEdge"} -> 9
      [] op = "commit" -> 10

\* The calls that are made once in a run of the transaction function.
OnceOps ==
    {"getEmbedding", "extractTopics", "generateID", "createMessage",
     "linkOwnership", "updateLastActive", "fetchCandidates", "commit"}

\* Call k of session s was preceded by a call op that succeeded.
Preceded(s, k, op) == \E j \in 1..(k - 1) : log[s][j].op = op /\ log[s][j].ok

\* The calls of the ingestion of session s, so far, in their order.
InOrder(s) ==
    /\ \A j, k \in DOMAIN log[s] :
          j < k => Rank(log[s][j].op) <= Rank(log[s][k].op)
    /\ \A op \in OnceOps : Cardinality(Entries(s, op)) <= 1
    /\ \A k \in DOMAIN log[s] :
          LET op == log[s][k].op
          IN /\ Rank(op) >= 4 =>
                  /\ Len(log[s]) >= 3
                  /\ log[s][1].op = "getEmbedding"
                  /\ log[s][2].op = "extractTopics"
                  /\ log[s][3].op = "generateID"
             /\ Rank(op) >= 5 => Preceded(s, k, "createMessage")
             /\ Rank(op) >= 6 => Preceded(s, k, "linkOwnership")
             /\ (Rank(op) >= 7 /\ message[s].Sender = "human")
                  => Preceded(s, k, "updateLastActive")
             /\ op = "updateLastActive" => message[s].Sender = "human"
             /\ op = "upsertTopic" =>
                  log[s][k].arg = 1 + Cardinality({j \in 1..(k - 1) :
                                                     log[s][j].op = "upsertTopic"})
             /\ op = "linkTopic" =>
                  /\ log[s][k - 1].op = "upsertTopic"
                  /\ log[s][k - 1].ok
                  /\ log[s][k - 1].arg = log[s][k].arg
             /\ Rank(op) >= 8 =>
                  Cardinality(Entries(s, "upsertTopic")) = Len(message[s].Topics)
             /\ Rank(op) >= 9 => Preceded(s, k, "fetchCandidates")
             /\ op = "commit" =>
                  \A j \in Entries(s, "fetchCandidates") :
                     Cardinality(Entries(s, "createEdge") \cup Entries(s, "noEdge"))
                        = log[s][j].arg
    /\ (pc[s] = "createMessage") => (tx[s] = EmptyTx /\ Len(log[s]) = 3)
    /\ InFlight(s) =>
          \A k \in DOMAIN log[s] :
             Rank(log[s][k].op) < 4 \/ log[s][k].ok
               \/ log[s][k].op \in AuxiliaryOps
    /\ Done(s) =>
          /\ tx[s] = EmptyTx
          /\ \/ Committed_(s) /\ Last(log[s]).op = "commit" /\ Last(log[s]).ok
             \/ Aborted(s) /\ ~ Last(log[s]).ok
          /\ \A k \in 1..(Len(log[s]) - 1) :
                Rank(log[s][k].op) < 4 \/ log[s][k].ok
                  \/ log[s][k].op \in AuxiliaryOps

\* C23: the calls of an ingestion are made in one order: the embedding, the
\* topic extraction and the id before the transaction has written anything;
\* in the transaction the Message node, then the OWNS link, then (for a human
\* message) the lastActive update, then upsert and link topic by topic, then
\* the similarity query, then the comparison of every row with the creation
\* of its edge, then the commit, and a run of the transaction function that
\* is repeated starts again at the Message node.  It ends when a call fails
\* that is fatal, or with the commit: every ingestion that has begun returns,
\* Committed or Aborted.
C23_FixedOrderAndTermination ==
    /\ [](\A s \in Sessions : InOrder(s))
    /\ \A s \in Sessions : InFlight(s) ~> (Committed_(s) \/ Aborted(s))

\* A human message was committed after every kind of step: the lastActive
\* update, two topics upserted and linked, a candidate compared and linked.
C23_Witness ==
    \E s \in Sessions :
        /\ Committed_(s)
        /\ message[s].Sender = "human"
        /\ Len(log[s]) = 13
        /\ log[s][6].op = "updateLastActive"
        /\ log[s][7].op = "upsertTopic" /\ log[s][8].op = "linkTopic"
        /\ log[s][9].op = "upsertTopic" /\ log[s][10].op = "linkTopic"
        /\ log[s][11].op = "fetchCandidates" /\ log[s][11].arg = 1
        /\ log[s][12].op = "createEdge" /\ log[s][12].ok
        /\ log[s][13].op = "commit"

\* C24: in every state of the committed graph, whatever calls failed, each
\* CONTEXTUAL_LINK relationship joins two different Message nodes that have
\* the same userId and embeddings that are not empty, and its similarity is
\* the cosine similarity of the two embeddings and is strictly greater than
\* 0.5 (dot > 0 and 4 * dot^2 > normA * normB).
C24_LinksWellFormed ==
    \A r \in store.links :
        \E m1, m2 \in store.messages :
            /\ m1.nid = r.from /\ m2.nid = r.to
            /\ m1.nid # m2.nid
            /\ m1.userId = m2.userId
            /\ m1.embedding # <<>> /\ m2.embedding # <<>>
            /\ SameSimilarity(r.similarity,
                              cosineSimilarity(m1.embedding, m2.embedding))
            /\ r.similarity.dot > 0
            /\ 4 * r.similarity.dot * r.similarity.dot > r.similarity.norm2

\* An ingestion committed although the upsert of a topic had failed, and the
\* graph holds one relationship, of similarity 1, from its Message node to
\* the earlier message of the same text.
C24_Witness ==
    \E s \in Sessions :
        /\ Committed_(s)
        /\ \E k \in Entries(s, "upsertTopic") : ~ log[s][k].ok
        /\ \E k \in Entries(s, "createEdge") : log[s][k].ok
        /\ \E m \in MessageNodes(s), r \in store.links :
              /\ r.from = m.nid /\ r.to # m.nid
              /\ r.similarity = [dot |-> 1, norm2 |-> 1]
        /\ Cardinality(store.links) = 1

====
